---- MODULE Spec2Model ----
(***************************************************************************)
(* Model of setup.py, the interactive configuration wizard of              *)
(* mc-status-bot.  One run of main() is modelled: the PyYAML bootstrap of  *)
(* run_setup, the first-run pass over OPTIONS, and for an existing         *)
(* config.yml the load, ensure_config_keys and the edit loop of            *)
(* run_config_adjustments.  Every input() call is one step whose line is   *)
(* chosen by the operator.                                                 *)
(***************************************************************************)
EXTENDS Integers, Sequences, FiniteSets, TLC

(***************************************************************************)
(* Bounds of the model.                                                    *)
(***************************************************************************)
\* iterations of the edit loop (answers "yes" to "Change another option?")
MaxEdits == 2
\* options missing from config.yml in the runs checked for termination
MaxMissing == 1

(***************************************************************************)
(* Text.  A line of input is a sequence of characters; a document value is *)
(* a string, an integer or None.                                           *)
(***************************************************************************)
StrV(s) == [t |-> "str", s |-> s, n |-> 0]
IntV(n) == [t |-> "int", s |-> <<>>, n |-> n]
None == [t |-> "none", s |-> <<>>, n |-> 0]

Upper == <<"A","B","C","D","E","F","G","H","I","J","K","L","M",
           "N","O","P","Q","R","S","T","U","V","W","X","Y","Z">>
Lowercase == <<"a","b","c","d","e","f","g","h","i","j","k","l","m",
               "n","o","p","q","r","s","t","u","v","w","x","y","z">>
Digits == <<"0","1","2","3","4","5","6","7","8","9">>

\* str.lower(): every cased character is replaced by its lowercase form
LowerChar(c) ==
  IF \E i \in 1..26 : Upper[i] = c
  THEN Lowercase[CHOOSE i \in 1..26 : Upper[i] = c]
  ELSE c
lower(s) == [i \in 1..Len(s) |-> LowerChar(s[i])]

IsDigit(c) == \E i \in 1..10 : Digits[i] = c
DigitVal(c) == (CHOOSE i \in 1..10 : Digits[i] = c) - 1

\* int(str): an optional sign followed by one or more decimal digits;
\* anything else raises ValueError.
IntBody(s) == IF Len(s) > 0 /\ s[1] \in {"+", "-"} THEN Tail(s) ELSE s
IsIntLiteral(s) ==
  /\ Len(IntBody(s)) > 0
  /\ \A i \in 1..Len(IntBody(s)) : IsDigit(IntBody(s)[i])
RECURSIVE DecVal(_)
DecVal(s) == IF s = <<>> THEN 0
             ELSE 10 * DecVal(SubSeq(s, 1, Len(s) - 1)) + DigitVal(s[Len(s)])
IntOfStr(s) == IF Len(s) > 0 /\ s[1] = "-" THEN 0 - DecVal(IntBody(s))
               ELSE DecVal(IntBody(s))

(***************************************************************************)
(* The option registry.                                                    *)
(***************************************************************************)
N_bot_token == <<"b","o","t","-","t","o","k","e","n">>
N_prefix == <<"p","r","e","f","i","x">>
N_server_type == <<"s","e","r","v","e","r","-","t","y","p","e">>
N_server_ip == <<"s","e","r","v","e","r","-","i","p">>
N_refresh_rate == <<"r","e","f","r","e","s","h","-","r","a","t","e">>
N_maintenance == <<"m","a","i","n","t","e","n","a","n","c","e","-","m","o","d","e",
                   "-","d","e","t","e","c","t","i","o","n">>
S_java == <<"j","a","v","a">>
S_bedrock == <<"b","e","d","r","o","c","k">>

BotToken == [name |-> "bot-token", chars |-> N_bot_token,
             default |-> None, optional |-> FALSE]
Prefix == [name |-> "prefix", chars |-> N_prefix,
           default |-> StrV(<<";">>), optional |-> TRUE]
ServerType == [name |-> "server-type", chars |-> N_server_type,
               default |-> StrV(S_java), optional |-> TRUE]
ServerIP == [name |-> "server-ip", chars |-> N_server_ip,
             default |-> None, optional |-> FALSE]
RefreshRate == [name |-> "refresh-rate", chars |-> N_refresh_rate,
                default |-> IntV(60), optional |-> TRUE]
MaintenceModeDetection == [name |-> "maintenance-mode-detection", chars |-> N_maintenance,
                           default |-> None, optional |-> TRUE]

OPTIONS == <<BotToken, Prefix, ServerType, ServerIP, RefreshRate, MaintenceModeDetection>>

\* [o.name for o in OPTIONS]
all_keys == [i \in 1..Len(OPTIONS) |-> OPTIONS[i].name]
Names == {all_keys[i] : i \in 1..Len(all_keys)}

\* the first option of OPTIONS with that name
get_option(key) ==
  OPTIONS[CHOOSE i \in 1..Len(OPTIONS) :
            /\ OPTIONS[i].name = key
            /\ \A j \in 1..(i - 1) : OPTIONS[j].name # key]
IndexOf(key) == CHOOSE i \in 1..Len(OPTIONS) : OPTIONS[i].name = key

\* the smallest value RefreshRate.prompt accepts
MinRefresh == 30

(***************************************************************************)
(* y_n and get_info, as functions of the line that input() returned.       *)
(***************************************************************************)
YesTokens == {<<"y","e","s">>, <<"y">>}
NoTokens == {<<"n","o">>, <<"n">>}
\* "yes", "no", or "again" when the loop of y_n reads another line
y_n(ri) == IF lower(ri) \in YesTokens THEN "yes"
           ELSE IF lower(ri) \in NoTokens THEN "no"
           ELSE "again"

\* get_info returning the default on every empty line
get_info_EmptyIsDefault(result, default, optional) ==
  IF result = <<>> THEN [ret |-> TRUE, val |-> default]
  ELSE [ret |-> TRUE, val |-> StrV(result)]
\* [ret |-> FALSE] when the loop of get_info reads another line
get_info(result, default, optional) ==
  IF result = <<>> /\ optional THEN [ret |-> TRUE, val |-> default]
  ELSE IF ~optional /\ result = <<>> THEN [ret |-> FALSE, val |-> None]
  ELSE [ret |-> TRUE, val |-> StrV(result)]

(***************************************************************************)
(* prompt() of each option, as one pass of its loop over the line read.    *)
(* The result is [ret |-> TRUE, val |-> v] when prompt() returns v, and    *)
(* [ret |-> FALSE, msg |-> m] when it reads another line, m telling        *)
(* whether a corrective message was printed first.                         *)
(***************************************************************************)
Retry(m) == [ret |-> FALSE, val |-> None, msg |-> m]
Returns(v) == [ret |-> TRUE, val |-> v, msg |-> FALSE]

\* ConfigOption.prompt and BotToken.prompt
BasePrompt(option, line) ==
  LET r == get_info(line, option.default, option.optional)
  IN IF r.ret THEN Returns(r.val) ELSE Retry(FALSE)

\* ServerTypePrompt without result.lower()
ServerTypePrompt_NoLower(option, line) ==
  LET r == get_info(line, option.default, option.optional)
      result == r.val.s
  IN IF ~r.ret THEN Retry(FALSE)
     ELSE IF lower(result) \in {S_java, S_bedrock} THEN Returns(StrV(result))
     ELSE Retry(TRUE)
ServerTypePrompt(option, line) ==
  LET r == get_info(line, option.default, option.optional)
      result == lower(r.val.s)
  IN IF ~r.ret THEN Retry(FALSE)
     ELSE IF result \in {S_java, S_bedrock} THEN Returns(StrV(result))
     ELSE Retry(TRUE)

\* RefreshRatePrompt with "result > 30"
RefreshRatePrompt_Exclusive(option, line) ==
  LET r == get_info(line, option.default, option.optional)
      isint == r.val.t = "int" \/ (r.val.t = "str" /\ IsIntLiteral(r.val.s))
      result == IF r.val.t = "int" THEN r.val.n ELSE IntOfStr(r.val.s)
  IN IF ~r.ret THEN Retry(FALSE)
     ELSE IF ~isint THEN Retry(FALSE)
     ELSE IF result > MinRefresh THEN Returns(IntV(result))
     ELSE Retry(TRUE)
\* RefreshRatePrompt printing its message on ValueError too
RefreshRatePrompt_MessageOnValueError(option, line) ==
  LET r == get_info(line, option.default, option.optional)
      isint == r.val.t = "int" \/ (r.val.t = "str" /\ IsIntLiteral(r.val.s))
      result == IF r.val.t = "int" THEN r.val.n ELSE IntOfStr(r.val.s)
  IN IF ~r.ret THEN Retry(FALSE)
     ELSE IF ~isint THEN Retry(TRUE)
     ELSE IF result >= MinRefresh THEN Returns(IntV(result))
     ELSE Retry(TRUE)
RefreshRatePrompt(option, line) ==
  LET r == get_info(line, option.default, option.optional)
      isint == r.val.t = "int" \/ (r.val.t = "str" /\ IsIntLiteral(r.val.s))
      result == IF r.val.t = "int" THEN r.val.n ELSE IntOfStr(r.val.s)
  IN IF ~r.ret THEN Retry(FALSE)
     ELSE IF ~isint THEN Retry(FALSE)
     ELSE IF result >= MinRefresh THEN Returns(IntV(result))
     ELSE Retry(TRUE)

\* MaintenanceText asking with optional=True
MaintenanceText_AcceptsEmpty(line) ==
  LET r == get_info(line, None, TRUE)
  IN IF r.ret THEN Returns(r.val) ELSE Retry(FALSE)
\* the free-text question of MaintenceModeDetection.prompt
MaintenanceText(line) ==
  LET r == get_info(line, None, FALSE)
  IN IF r.ret THEN Returns(r.val) ELSE Retry(FALSE)

OptionPrompt(key, line) ==
  CASE key = "server-type" -> ServerTypePrompt(get_option(key), line)
    [] key = "refresh-rate" -> RefreshRatePrompt(get_option(key), line)
    [] OTHER -> BasePrompt(get_option(key), line)

(***************************************************************************)
(* Documents.                                                              *)
(***************************************************************************)
EmptyDoc == [k \in {} |-> None]
\* SetItem rebuilding the document from the option names only
SetItem_OptionsOnly(doc, key, value) ==
  [k \in (DOMAIN doc \cap Names) \cup {key} |-> IF k = key THEN value ELSE doc[k]]
\* config[key] = value
SetItem(doc, key, value) ==
  [k \in DOMAIN doc \cup {key} |-> IF k = key THEN value ELSE doc[k]]

\* MissingOpts without the difference: every option counts as missing
MissingOpts_NoDifference(doc) == Names
\* set(all_keys) - set(config.keys())
MissingOpts(doc) == Names \ DOMAIN doc

\* FillDefaults looping over all_keys instead of missing_opts
FillDefaults_AllKeys(doc, missing) ==
  [k \in DOMAIN doc \cup Names |->
     IF k \in Names THEN get_option(k).default ELSE doc[k]]
\* for opt in missing_opts: config[opt] = get_option(opt).default
FillDefaults(doc, missing) ==
  [k \in DOMAIN doc \cup missing |->
     IF k \in missing THEN get_option(k).default ELSE doc[k]]

\* Dump writing the options only
Dump_OptionsOnly(doc) ==
  [kind |-> "map", doc |-> [k \in DOMAIN doc \cap Names |-> doc[k]]]
\* yaml.dump(config, f) on a file opened with "w": the file holds the document
Dump(doc) == [kind |-> "map", doc |-> doc]
\* yaml.safe_load(f): the mapping the file holds
safe_load(file) == file.doc

(***************************************************************************)
(* The operator and the files the run may start from.                      *)
(***************************************************************************)
\* lines the operator types at a yes/no question
GateLines == {<<"y">>, <<"Y","e","s">>, <<"n">>, <<"N","O">>, <<>>, <<"o","k">>}
\* lines the operator types at a free-text question
TextLines == {<<>>, <<"a","b","c">>}
\* lines the operator types when asked for the server type
TypeLines == {<<>>, <<"J","a","v","a">>, <<"B","E","D","R","O","C","K">>,
              <<"p","o","c","k","e","t">>}
\* lines the operator types when asked for the refresh rate
RateLines == {<<>>, <<"1","0">>, <<"3","0">>, <<"a","b","c">>}
\* a key of the document that is no option
ExtraKey == "owner"
\* lines the operator types when asked for the option to change
KeyLines == {OPTIONS[i].chars : i \in 1..Len(OPTIONS)}
              \cup {<<>>, <<"P","r","e","f","i","x">>, <<"o","w","n","e","r">>}

LinesFor(key) ==
  CASE key = "server-type" -> TypeLines
    [] key = "refresh-rate" -> RateLines
    [] OTHER -> TextLines

\* the values of a config.yml written before this run
OldDoc ==
  [k \in Names \cup {ExtraKey} |->
     CASE k = "bot-token" -> StrV(<<"t","o","k">>)
       [] k = "prefix" -> StrV(<<"!">>)
       [] k = "server-type" -> StrV(S_bedrock)
       [] k = "server-ip" -> StrV(<<"i","p">>)
       [] k = "refresh-rate" -> IntV(120)
       [] k = "maintenance-mode-detection" -> StrV(<<"d","o","w","n">>)
       [] OTHER -> StrV(<<"m","e">>)]
Restrict(doc, keys) == [k \in keys |-> doc[k]]

\* config.yml before the run: no file, a file that does not parse, a file
\* whose content is no mapping (an empty file loads as None), or a mapping
\* with any subset of the options and possibly a key that is no option.
InitialFiles ==
  {[kind |-> kd, doc |-> EmptyDoc] : kd \in {"absent", "malformed", "notmap"}}
    \cup {[kind |-> "map", doc |-> Restrict(OldDoc, ks)] :
            ks \in SUBSET (Names \cup {ExtraKey})}

(***************************************************************************)
(* State.                                                                  *)
(***************************************************************************)
VARIABLES
  pc,            \* position of the run
  loops,         \* run_setup: failed imports of yaml
  yaml_ok,       \* whether "import yaml" succeeds
  file,          \* config.yml
  file0,         \* config.yml when the run started
  config,        \* the in-memory document (config / current_config)
  missing_opts,  \* ensure_config_keys: the missing options
  set_to_default,\* ensure_config_keys: the answer to its question
  visited,       \* ensure_config_keys: options its for loop has taken
  ctx,           \* caller of the running option.prompt()
  cur,           \* option whose prompt() is running (to_change in the editor)
  ppc,           \* position inside that prompt()
  edits,         \* completed iterations of the edit loop
  writes,        \* number of times config.yml was written
  gates,         \* per yes/no question, number of times y_n was called with it
  nprompt,       \* per option, number of calls of its prompt()
  err,           \* the exception that ended the run, if any
  unit           \* a single call made outside a run (see "Single calls")

\* no single call is being made
NoUnit == [q |-> "none", pos |-> "idle", typed |-> <<>>, log |-> <<>>,
           result |-> None, answer |-> "none", key |-> "none",
           default |-> None, optional |-> TRUE]

vars == <<pc, loops, yaml_ok, file, file0, config, missing_opts, set_to_default, visited,
          ctx, cur, ppc, edits, writes, gates, nprompt, err, unit>>

\* the yes/no questions, and "to_change" for "Enter option to change"
GateNames == {"default", "change", "another", "maintenance", "to_change"}

Init ==
  /\ pc = "import"
  /\ loops = 0
  /\ yaml_ok \in BOOLEAN
  /\ file \in InitialFiles
  /\ file0 = file
  /\ config = EmptyDoc
  /\ missing_opts = {}
  /\ set_to_default = "unset"
  /\ visited = {}
  /\ ctx = "none"
  /\ cur = "none"
  /\ ppc = "none"
  /\ edits = 0
  /\ writes = 0
  /\ gates = [g \in GateNames |-> 0]
  /\ nprompt = [k \in Names |-> 0]
  /\ err = "none"
  /\ unit = NoUnit

Ask(g) == [gates EXCEPT ![g] = @ + 1]

\* option.prompt() is called: its first question is on the screen
CallPrompt(key, caller) ==
  /\ pc' = "prompt"
  /\ ctx' = caller
  /\ cur' = key
  /\ nprompt' = [nprompt EXCEPT ![key] = @ + 1]
  /\ IF key = "maintenance-mode-detection"
     THEN ppc' = "mm_gate" /\ gates' = Ask("maintenance")
     ELSE ppc' = "ask" /\ UNCHANGED gates
NoPrompt == ctx' = "none" /\ cur' = "none" /\ ppc' = "none"

(***************************************************************************)
(* run_setup: the import of yaml.                                          *)
(***************************************************************************)
\* "import yaml" succeeds and the loop is left
ImportYaml ==
  /\ pc = "import" /\ loops < 2
  /\ yaml_ok
  /\ pc' = "isfile"
  /\ UNCHANGED <<loops, yaml_ok, file, file0, config, missing_opts, visited,
                 ctx, cur, ppc, edits, writes, gates, nprompt, err>>
  /\ UNCHANGED <<set_to_default, unit>>

\* ImportError: loops += 1, then update_deps(), a name that setup.py neither
\* defines nor imports, so the call raises NameError out of run_setup
ImportError ==
  /\ pc = "import" /\ loops < 2
  /\ ~yaml_ok
  /\ loops' = loops + 1
  /\ pc' = "aborted"
  /\ err' = "NameError"
  /\ UNCHANGED <<yaml_ok, file, file0, config, missing_opts, visited,
                 ctx, cur, ppc, edits, writes, gates, nprompt>>
  /\ UNCHANGED <<set_to_default, unit>>

\* os.path.isfile("config.yml") is true: run_config_adjustments is called
ConfigExists ==
  /\ pc = "isfile"
  /\ file.kind # "absent"
  /\ pc' = "load"
  /\ UNCHANGED <<loops, yaml_ok, file, file0, config, missing_opts, visited,
                 ctx, cur, ppc, edits, writes, gates, nprompt, err>>
  /\ UNCHANGED <<set_to_default, unit>>

\* no config.yml: config = {} and the loop over OPTIONS calls the first prompt()
NoConfig ==
  /\ pc = "isfile"
  /\ file.kind = "absent"
  /\ config' = EmptyDoc
  /\ CallPrompt(OPTIONS[1].name, "first")
  /\ UNCHANGED <<loops, yaml_ok, file, file0, missing_opts, visited,
                 edits, writes, err>>
  /\ UNCHANGED <<set_to_default, unit>>

(***************************************************************************)
(* run_config_adjustments: the load, and ensure_config_keys up to its      *)
(* question.                                                               *)
(***************************************************************************)
\* LoadFails catching the exception and starting over from the defaults
LoadFails_ResetsToDefaults ==
  /\ pc = "load"
  /\ file.kind = "malformed"
  /\ config' = FillDefaults(EmptyDoc, Names)
  /\ file' = Dump(config')
  /\ writes' = writes + 1
  /\ pc' = "edit_gate"
  /\ gates' = Ask("change")
  /\ UNCHANGED <<loops, yaml_ok, file0, missing_opts, visited,
                 ctx, cur, ppc, edits, nprompt, err, set_to_default, unit>>

\* yaml.safe_load raises on a file that does not parse
LoadFails ==
  /\ pc = "load"
  /\ file.kind = "malformed"
  /\ pc' = "aborted"
  /\ err' = "YAMLError"
  /\ UNCHANGED <<loops, yaml_ok, file, file0, config, missing_opts, visited,
                 ctx, cur, ppc, edits, writes, gates, nprompt>>
  /\ UNCHANGED <<set_to_default, unit>>

\* the loaded value is no mapping: config.keys() raises AttributeError
LoadNotMapping ==
  /\ pc = "load"
  /\ file.kind = "notmap"
  /\ pc' = "aborted"
  /\ err' = "AttributeError"
  /\ UNCHANGED <<loops, yaml_ok, file, file0, config, missing_opts, visited,
                 ctx, cur, ppc, edits, writes, gates, nprompt>>
  /\ UNCHANGED <<set_to_default, unit>>

\* the mapping is loaded and no option is missing: "Config is up-to-date",
\* ensure_config_keys returns and "Change info in config file?" is asked
LoadUpToDate ==
  /\ pc = "load"
  /\ file.kind = "map"
  /\ MissingOpts(safe_load(file)) = {}
  /\ config' = safe_load(file)
  /\ missing_opts' = MissingOpts(safe_load(file))
  /\ pc' = "edit_gate"
  /\ gates' = Ask("change")
  /\ UNCHANGED <<loops, yaml_ok, file, file0, visited,
                 ctx, cur, ppc, edits, writes, nprompt, err>>
  /\ UNCHANGED <<set_to_default, unit>>

\* the mapping is loaded and options are missing: the question
\* "Automatically set these options to default?" is asked
LoadMissing ==
  /\ pc = "load"
  /\ file.kind = "map"
  /\ MissingOpts(safe_load(file)) # {}
  /\ config' = safe_load(file)
  /\ missing_opts' = MissingOpts(safe_load(file))
  /\ pc' = "rec_gate"
  /\ gates' = Ask("default")
  /\ UNCHANGED <<loops, yaml_ok, file, file0, visited,
                 ctx, cur, ppc, edits, writes, nprompt, err>>
  /\ UNCHANGED <<set_to_default, unit>>

(***************************************************************************)
(* ensure_config_keys: the answer, the fill and the write.                 *)
(***************************************************************************)
\* an answer that is neither yes nor no: y_n asks again
DefaultGateAgain ==
  /\ pc = "rec_gate"
  /\ \E ri \in GateLines : y_n(ri) = "again"
  /\ UNCHANGED vars

\* set_to_default: every missing option gets its default
DefaultGateYes ==
  /\ pc = "rec_gate"
  /\ \E ri \in GateLines : y_n(ri) = "yes"
  /\ set_to_default' = "yes"
  /\ config' = FillDefaults(config, missing_opts)
  /\ visited' = missing_opts
  /\ pc' = "rec_write"
  /\ UNCHANGED <<loops, yaml_ok, file, file0, missing_opts,
                 ctx, cur, ppc, edits, writes, gates, nprompt, err, unit>>

\* not set_to_default: the loop over missing_opts calls the first prompt();
\* a set of strings is iterated in an order the run does not control
DefaultGateNo ==
  /\ pc = "rec_gate"
  /\ \E ri \in GateLines : y_n(ri) = "no"
  /\ set_to_default' = "no"
  /\ \E opt \in missing_opts :
       /\ CallPrompt(opt, "rec")
       /\ visited' = {opt}
  /\ UNCHANGED <<loops, yaml_ok, file, file0, config, missing_opts,
                 edits, writes, err, unit>>

\* ReconcileWrite returning from run_config_adjustments after the write
ReconcileWrite_SkipsEditor ==
  /\ pc = "rec_write"
  /\ file' = Dump(config)
  /\ writes' = writes + 1
  /\ pc' = "done"
  /\ UNCHANGED <<loops, yaml_ok, file0, config, missing_opts, visited,
                 ctx, cur, ppc, edits, gates, nprompt, err, set_to_default, unit>>

\* with open("config.yml", "w"): yaml.dump(config, f); ensure_config_keys
\* returns and "Change info in config file?" is asked
ReconcileWrite ==
  /\ pc = "rec_write"
  /\ file' = Dump(config)
  /\ writes' = writes + 1
  /\ pc' = "edit_gate"
  /\ gates' = Ask("change")
  /\ UNCHANGED <<loops, yaml_ok, file0, config, missing_opts, visited,
                 ctx, cur, ppc, edits, nprompt, err>>
  /\ UNCHANGED <<set_to_default, unit>>
(***************************************************************************)
(* option.prompt(), called by the first-run loop, by ensure_config_keys    *)
(* and by the edit loop.                                                   *)
(***************************************************************************)
\* ReturnToSetup with a loop that stops one option early
ReturnToSetup_StopsEarly(value) ==
  /\ config' = SetItem(config, cur, value)
  /\ IF IndexOf(cur) < Len(OPTIONS) - 1
     THEN CallPrompt(OPTIONS[IndexOf(cur) + 1].name, "first")
     ELSE pc' = "first_write" /\ NoPrompt /\ UNCHANGED <<gates, nprompt>>
  /\ UNCHANGED <<visited, edits>>

\* prompt() returns value to the first-run loop: config[option.name] = result,
\* then the next option's prompt(), or the write after the last one
ReturnToSetup(value) ==
  /\ config' = SetItem(config, cur, value)
  /\ IF IndexOf(cur) < Len(OPTIONS)
     THEN CallPrompt(OPTIONS[IndexOf(cur) + 1].name, "first")
     ELSE pc' = "first_write" /\ NoPrompt /\ UNCHANGED <<gates, nprompt>>
  /\ UNCHANGED <<visited, edits>>

\* ReturnToEnsure with a loop over all_keys instead of missing_opts
ReturnToEnsure_AllKeys(value) ==
  /\ config' = SetItem(config, cur, value)
  /\ IF Names \ visited # {}
     THEN \E opt \in Names \ visited :
            /\ CallPrompt(opt, "rec")
            /\ visited' = visited \cup {opt}
     ELSE pc' = "rec_write" /\ NoPrompt /\ UNCHANGED <<gates, nprompt, visited>>
  /\ UNCHANGED edits

\* prompt() returns value to ensure_config_keys: config[opt] = result, then
\* the next missing option's prompt(), or the write after the last one
ReturnToEnsure(value) ==
  /\ config' = SetItem(config, cur, value)
  /\ IF missing_opts \ visited # {}
     THEN \E opt \in missing_opts \ visited :
            /\ CallPrompt(opt, "rec")
            /\ visited' = visited \cup {opt}
     ELSE pc' = "rec_write" /\ NoPrompt /\ UNCHANGED <<gates, nprompt, visited>>
  /\ UNCHANGED edits

\* ReturnToEditor rebuilding the other options from their defaults
ReturnToEditor_ResetsOthers(value) ==
  /\ config' = SetItem(FillDefaults(config, Names), cur, value)
  /\ pc' = "edit_again"
  /\ NoPrompt
  /\ gates' = Ask("another")
  /\ edits' = edits + 1
  /\ UNCHANGED <<nprompt, visited>>

\* prompt() returns value to the edit loop: current_config[to_change] =
\* change_to, then "Change another option?" is asked
ReturnToEditor(value) ==
  /\ config' = SetItem(config, cur, value)
  /\ pc' = "edit_again"
  /\ NoPrompt
  /\ gates' = Ask("another")
  /\ edits' = edits + 1
  /\ UNCHANGED <<nprompt, visited>>

Return(value) ==
  CASE ctx = "first" -> ReturnToSetup(value)
    [] ctx = "rec" -> ReturnToEnsure(value)
    [] ctx = "edit" -> ReturnToEditor(value)

\* one line read by the get_info of an option's prompt()
PromptLine ==
  /\ pc = "prompt" /\ ppc = "ask"
  /\ \E line \in LinesFor(cur) :
       LET r == OptionPrompt(cur, line)
       IN IF r.ret THEN Return(r.val)
          ELSE UNCHANGED <<pc, config, visited, ctx, cur, ppc, edits, gates, nprompt>>
  /\ UNCHANGED <<loops, yaml_ok, file, file0, missing_opts, writes, err>>
  /\ UNCHANGED <<set_to_default, unit>>

\* one line read by the y_n of MaintenceModeDetection.prompt
MaintenanceGate ==
  /\ pc = "prompt" /\ ppc = "mm_gate"
  /\ \E ri \in GateLines :
       CASE y_n(ri) = "yes" ->
              /\ ppc' = "mm_text"
              /\ UNCHANGED <<pc, config, visited, ctx, cur, edits, gates, nprompt>>
         [] y_n(ri) = "no" -> Return(None)
         [] OTHER ->
              UNCHANGED <<pc, config, visited, ctx, cur, ppc, edits, gates, nprompt>>
  /\ UNCHANGED <<loops, yaml_ok, file, file0, missing_opts, writes, err>>
  /\ UNCHANGED <<set_to_default, unit>>

\* one line read by the get_info(optional=False) of MaintenceModeDetection.prompt
MaintenanceLine ==
  /\ pc = "prompt" /\ ppc = "mm_text"
  /\ \E line \in TextLines :
       LET r == MaintenanceText(line)
       IN IF r.ret THEN Return(r.val)
          ELSE UNCHANGED <<pc, config, visited, ctx, cur, ppc, edits, gates, nprompt>>
  /\ UNCHANGED <<loops, yaml_ok, file, file0, missing_opts, writes, err>>
  /\ UNCHANGED <<set_to_default, unit>>

(***************************************************************************)
(* run_setup: the write of the first run.                                  *)
(***************************************************************************)
\* SetupWrite going back to the existence check after the write
SetupWrite_Restarts ==
  /\ pc = "first_write"
  /\ file' = Dump(config)
  /\ writes' = writes + 1
  /\ pc' = "isfile"
  /\ UNCHANGED <<loops, yaml_ok, file0, config, missing_opts, visited,
                 ctx, cur, ppc, edits, gates, nprompt, err, set_to_default, unit>>

SetupWrite ==
  /\ pc = "first_write"
  /\ file' = Dump(config)
  /\ writes' = writes + 1
  /\ pc' = "done"
  /\ UNCHANGED <<loops, yaml_ok, file0, config, missing_opts, visited,
                 ctx, cur, ppc, edits, gates, nprompt, err>>
  /\ UNCHANGED <<set_to_default, unit>>

(***************************************************************************)
(* run_config_adjustments: the edit loop.                                  *)
(***************************************************************************)
ChangeGateAgain ==
  /\ pc = "edit_gate"
  /\ \E ri \in GateLines : y_n(ri) = "again"
  /\ UNCHANGED vars

\* ChangeGateNo leaving through the write instead of returning
ChangeGateNo_Writes ==
  /\ pc = "edit_gate"
  /\ \E ri \in GateLines : y_n(ri) = "no"
  /\ file' = Dump(config)
  /\ writes' = writes + 1
  /\ pc' = "done"
  /\ UNCHANGED <<loops, yaml_ok, file0, config, missing_opts, visited,
                 ctx, cur, ppc, edits, gates, nprompt, err, set_to_default, unit>>

\* not change: return
ChangeGateNo ==
  /\ pc = "edit_gate"
  /\ \E ri \in GateLines : y_n(ri) = "no"
  /\ pc' = "done"
  /\ UNCHANGED <<loops, yaml_ok, file, file0, config, missing_opts, visited,
                 ctx, cur, ppc, edits, writes, gates, nprompt, err>>
  /\ UNCHANGED <<set_to_default, unit>>

\* change: "Enter option to change" is asked
ChangeGateYes ==
  /\ pc = "edit_gate"
  /\ \E ri \in GateLines : y_n(ri) = "yes"
  /\ pc' = "edit_key"
  /\ gates' = Ask("to_change")
  /\ UNCHANGED <<loops, yaml_ok, file, file0, config, missing_opts, visited,
                 ctx, cur, ppc, edits, writes, nprompt, err>>
  /\ UNCHANGED <<set_to_default, unit>>

\* the option the line names: get_info(optional=False), lower(), and
\* "in all_keys"; "none" when the inner loop asks again
ToChange(line) ==
  LET r == get_info(line, None, FALSE)
      to_change == lower(r.val.s)
  IN IF r.ret /\ \E i \in 1..Len(OPTIONS) : OPTIONS[i].chars = to_change
     THEN OPTIONS[CHOOSE i \in 1..Len(OPTIONS) : OPTIONS[i].chars = to_change].name
     ELSE "none"

\* one line read by "Enter option to change"
EnterOption ==
  /\ pc = "edit_key"
  /\ \E line \in KeyLines :
       IF ToChange(line) # "none"
       THEN CallPrompt(ToChange(line), "edit")
       ELSE UNCHANGED <<pc, ctx, cur, ppc, gates, nprompt>>
  /\ UNCHANGED <<loops, yaml_ok, file, file0, config, missing_opts, visited,
                 edits, writes, err>>
  /\ UNCHANGED <<set_to_default, unit>>

AnotherGateAgain ==
  /\ pc = "edit_again"
  /\ \E ri \in GateLines : y_n(ri) = "again"
  /\ UNCHANGED vars

\* again: the loop asks for the next option to change
AnotherGateYes ==
  /\ pc = "edit_again"
  /\ edits < MaxEdits
  /\ \E ri \in GateLines : y_n(ri) = "yes"
  /\ pc' = "edit_key"
  /\ gates' = Ask("to_change")
  /\ UNCHANGED <<loops, yaml_ok, file, file0, config, missing_opts, visited,
                 ctx, cur, ppc, edits, writes, nprompt, err>>
  /\ UNCHANGED <<set_to_default, unit>>

\* not again: the loop is left
AnotherGateNo ==
  /\ pc = "edit_again"
  /\ \E ri \in GateLines : y_n(ri) = "no"
  /\ pc' = "edit_write"
  /\ UNCHANGED <<loops, yaml_ok, file, file0, config, missing_opts, visited,
                 ctx, cur, ppc, edits, writes, gates, nprompt, err>>
  /\ UNCHANGED <<set_to_default, unit>>

\* EditorWrite leaving without the dump
EditorWrite_NoDump ==
  /\ pc = "edit_write"
  /\ pc' = "done"
  /\ UNCHANGED <<loops, yaml_ok, file, file0, config, missing_opts, visited,
                 ctx, cur, ppc, edits, writes, gates, nprompt, err, set_to_default, unit>>

\* with open("config.yml", "w"): yaml.dump(current_config, f)
EditorWrite ==
  /\ pc = "edit_write"
  /\ file' = Dump(config)
  /\ writes' = writes + 1
  /\ pc' = "done"
  /\ UNCHANGED <<loops, yaml_ok, file0, config, missing_opts, visited,
                 ctx, cur, ppc, edits, gates, nprompt, err>>
  /\ UNCHANGED <<set_to_default, unit>>

Next ==
  \/ ImportYaml \/ ImportError
  \/ ConfigExists \/ NoConfig
  \/ LoadFails \/ LoadNotMapping \/ LoadUpToDate \/ LoadMissing
  \/ DefaultGateAgain \/ DefaultGateYes \/ DefaultGateNo \/ ReconcileWrite
  \/ PromptLine \/ MaintenanceGate \/ MaintenanceLine
  \/ SetupWrite
  \/ ChangeGateAgain \/ ChangeGateNo \/ ChangeGateYes
  \/ EnterOption
  \/ AnotherGateAgain \/ AnotherGateYes \/ AnotherGateNo
  \/ EditorWrite

Spec == Init /\ [][Next]_vars

TypeOK ==
  /\ pc \in {"import", "isfile", "load", "rec_gate", "rec_write", "prompt",
             "first_write", "edit_gate", "edit_key", "edit_again", "edit_write",
             "done", "aborted"}
  /\ loops \in 0..2
  /\ DOMAIN config \subseteq Names \cup {ExtraKey}
  /\ visited \subseteq missing_opts
  /\ cur \in Names \cup {"none"}
  /\ edits \in 0..MaxEdits
(***************************************************************************)
(* Single calls.  One call of an option's prompt(), of y_n, of the option  *)
(* question of the edit loop, or of ConfigOption.__init__, made outside a  *)
(* run, with the lines read and what followed each of them recorded.       *)
(***************************************************************************)
\* lines read by one call
MaxTyped == 3

\* bool(value)
Truthy(v) == (v.t = "int" /\ v.n # 0) \/ (v.t = "str" /\ v.s # <<>>)

\* ConfigOption.__init__: raises ValueError, or sets default and optional
ConfigOption(default, optional) ==
  IF Truthy(default) /\ ~optional
  THEN [raised |-> TRUE, default |-> None, optional |-> optional]
  ELSE [raised |-> FALSE, default |-> default, optional |-> optional]

S_maintenance == <<"m","a","i","n","t","e","n","a","n","c","e">>
UnitTextLines == {<<>>, <<"a","b","c">>, S_maintenance}
UnitTypeLines == {<<>>, <<"J","A","V","A">>, <<"j","a","v","a">>, <<"J","a","v","a">>,
                  <<"b","e","d","r","o","c","k">>, <<"B","e","d","r","o","c","k">>,
                  <<"p","o","c","k","e","t","e","d","i","t","i","o","n">>}
UnitRateLines == {<<>>, <<"1","0">>, <<"2","9">>, <<"3","0">>, <<"4","5">>,
                  <<"a","b","c">>, <<"-","5">>, <<"3","x">>}
UnitLines(q) ==
  CASE q = "server-type" -> UnitTypeLines
    [] q = "refresh-rate" -> UnitRateLines
    [] OTHER -> UnitTextLines
\* defaults ConfigOption.__init__ is called with
UnitDefaults == {None, IntV(0), StrV(<<>>), StrV(<<";">>), IntV(60)}

Questions == Names \cup {"y_n", "to_change"}
UnitStart(q) ==
  [NoUnit EXCEPT !.q = q,
                 !.pos = IF q = "maintenance-mode-detection" THEN "mm_gate" ELSE "ask"]

InitUnit ==
  /\ pc = "unit"
  /\ loops = 0
  /\ yaml_ok = TRUE
  /\ file = [kind |-> "absent", doc |-> EmptyDoc]
  /\ file0 = file
  /\ config = EmptyDoc
  /\ missing_opts = {}
  /\ set_to_default = "unset"
  /\ visited = {}
  /\ ctx = "none"
  /\ cur = "none"
  /\ ppc = "none"
  /\ edits = 0
  /\ writes = 0
  /\ gates = [g \in GateNames |-> 0]
  /\ nprompt = [k \in Names |-> 0]
  /\ err = "none"
  /\ unit \in {UnitStart(q) : q \in Questions}
        \cup {[NoUnit EXCEPT !.q = "construct", !.pos = "new",
                             !.default = d, !.optional = o] :
                d \in UnitDefaults, o \in BOOLEAN}

run == <<pc, loops, yaml_ok, file, file0, config, missing_opts, set_to_default,
         visited, ctx, cur, ppc, edits, writes, gates, nprompt, err>>

\* the line is read and what followed it is recorded
Read(line, outcome) ==
  [unit EXCEPT !.typed = Append(@, line), !.log = Append(@, outcome)]

\* one line read by the prompt() of an option
UnitPromptLine ==
  /\ unit.q \in Names /\ unit.pos = "ask"
  /\ Len(unit.typed) < MaxTyped
  /\ \E line \in UnitLines(unit.q) :
       LET r == OptionPrompt(unit.q, line)
       IN unit' = IF r.ret
                  THEN [Read(line, "ret") EXCEPT !.pos = "returned", !.result = r.val]
                  ELSE Read(line, IF r.msg THEN "msg" ELSE "silent")
  /\ UNCHANGED run

\* one line read by y_n, called alone or by MaintenceModeDetection.prompt
UnitGate ==
  /\ \/ unit.q = "y_n" /\ unit.pos = "ask"
     \/ unit.q = "maintenance-mode-detection" /\ unit.pos = "mm_gate"
  /\ Len(unit.typed) < MaxTyped
  /\ \E ri \in GateLines :
       unit' =
         CASE y_n(ri) = "again" -> Read(ri, "silent")
           [] unit.q = "y_n" ->
                [Read(ri, "ret") EXCEPT !.pos = "returned", !.answer = y_n(ri)]
           [] y_n(ri) = "yes" ->
                [Read(ri, "yes") EXCEPT !.pos = "mm_text", !.answer = "yes"]
           [] OTHER ->
                [Read(ri, "ret") EXCEPT !.pos = "returned", !.answer = "no",
                                        !.result = None]
  /\ UNCHANGED run

\* one line read by the get_info(optional=False) of MaintenceModeDetection.prompt
UnitMaintenanceLine ==
  /\ unit.q = "maintenance-mode-detection" /\ unit.pos = "mm_text"
  /\ Len(unit.typed) < MaxTyped
  /\ \E line \in UnitTextLines :
       LET r == MaintenanceText(line)
       IN unit' = IF r.ret
                  THEN [Read(line, "ret") EXCEPT !.pos = "returned", !.result = r.val]
                  ELSE Read(line, IF r.msg THEN "msg" ELSE "silent")
  /\ UNCHANGED run

\* one line read by "Enter option to change"
UnitEnterOption ==
  /\ unit.q = "to_change" /\ unit.pos = "ask"
  /\ Len(unit.typed) < MaxTyped
  /\ \E line \in KeyLines :
       unit' = IF ToChange(line) # "none"
               THEN [Read(line, "ret") EXCEPT !.pos = "returned", !.key = ToChange(line)]
               ELSE Read(line, "silent")
  /\ UNCHANGED run

\* ConfigOption.__init__(name, help, default=..., optional=...)
UnitConstruct ==
  /\ unit.q = "construct" /\ unit.pos = "new"
  /\ LET option == ConfigOption(unit.default, unit.optional)
     IN unit' = IF option.raised
                THEN [unit EXCEPT !.pos = "raised"]
                ELSE [unit EXCEPT !.pos = "made", !.result = option.default]
  /\ UNCHANGED run

NextUnit ==
  \/ UnitPromptLine \/ UnitGate \/ UnitMaintenanceLine
  \/ UnitEnterOption \/ UnitConstruct

SpecUnit == InitUnit /\ [][NextUnit]_vars

(***************************************************************************)
(* Properties.                                                             *)
(***************************************************************************)
NoPromptYet == \A k \in Names : nprompt[k] = 0
NoQuestionYet == \A g \in GateNames : gates[g] = 0
\* the run started from a config.yml holding a mapping
Existing == file0.kind = "map"
\* the options the starting document lacks
Missing0 == {k \in {"bot-token", "prefix", "server-type", "server-ip",
                    "refresh-rate", "maintenance-mode-detection"} :
               k \notin DOMAIN file0.doc}
\* ensure_config_keys has returned and nothing has been edited yet
EnsureReturned == pc = "edit_gate"
\* the loaded keys still hold the loaded values
LoadedKeysKept == \A k \in DOMAIN file0.doc : k \in DOMAIN config /\ config[k] = file0.doc[k]

\* C1: on a document that has all six option names (with or without other
\* keys) ensure_config_keys asks no yes/no question, calls no prompt(),
\* writes nothing and leaves the in-memory document as loaded.
C1_CompleteIsNoOp ==
  (Existing /\ Missing0 = {}) =>
     /\ gates["default"] = 0
     /\ pc \notin {"rec_gate", "rec_write"}
     /\ ctx # "rec"
     /\ set_to_default = "unset"
     /\ EnsureReturned =>
          /\ writes = 0 /\ file = file0
          /\ NoPromptYet
          /\ config = file0.doc
C1_Witness ==
  /\ EnsureReturned /\ Existing /\ Missing0 = {}
  /\ ExtraKey \in DOMAIN file0.doc

\* the default each option declares
DeclaredDefault(k) ==
  CASE k = "prefix" -> StrV(<<";">>)
    [] k = "server-type" -> StrV(<<"j","a","v","a">>)
    [] k = "refresh-rate" -> IntV(60)
    [] OTHER -> None

\* C2: when options are missing and the operator answers yes to the default
\* question, every missing option holds its declared default after
\* ensure_config_keys, no prompt() was called, and every key that was
\* present keeps its value.
C2_DefaultBackfill ==
  (Existing /\ set_to_default = "yes" /\ pc \in {"rec_write", "edit_gate"}) =>
     /\ Missing0 # {}
     /\ DOMAIN config = DOMAIN file0.doc \cup Missing0
     /\ \A k \in Missing0 : config[k] = DeclaredDefault(k)
     /\ NoPromptYet
     /\ LoadedKeysKept
C2_Witness ==
  /\ EnsureReturned /\ set_to_default = "yes"
  /\ Missing0 = {"prefix", "refresh-rate"}
  /\ config["prefix"] = StrV(<<";">>) /\ config["refresh-rate"] = IntV(60)

\* C3: when options are missing, ensure_config_keys writes config.yml exactly
\* once, after all missing options were assigned, whatever the answer and
\* whatever the values; the file then holds the whole in-memory document.
C3_OneFullWrite ==
  (Existing /\ Missing0 # {}) =>
     /\ (pc = "rec_gate" \/ (pc = "prompt" /\ ctx = "rec") \/ pc = "rec_write")
          => writes = 0 /\ file = file0
     /\ pc = "rec_write" => Missing0 \subseteq DOMAIN config
     /\ EnsureReturned =>
          /\ writes = 1
          /\ file.kind = "map" /\ file.doc = config
          /\ DOMAIN file.doc = DOMAIN file0.doc \cup Missing0
C3_Witness ==
  /\ EnsureReturned /\ set_to_default = "no" /\ writes = 1
  /\ ExtraKey \in DOMAIN file0.doc
  /\ "prefix" \in Missing0 /\ config["prefix"] = StrV(<<";">>)
  /\ "server-ip" \notin Missing0

\* C4: when options are missing and the operator answers no to the default
\* question, ensure_config_keys calls prompt() once for each missing option
\* and for no other, each returned value is stored under that option's key,
\* and every key that was present keeps its value.
C4_State ==
  (Existing /\ set_to_default = "no") =>
     /\ Missing0 # {}
     /\ (pc = "prompt" /\ ctx = "rec") =>
          /\ cur \in Missing0 /\ cur \notin DOMAIN config
          /\ \A k \in Names :
               nprompt[k] = IF k \in DOMAIN config \ DOMAIN file0.doc \/ k = cur
                            THEN 1 ELSE 0
          /\ DOMAIN config \subseteq DOMAIN file0.doc \cup Missing0
          /\ LoadedKeysKept
     /\ pc \in {"rec_write", "edit_gate"} =>
          /\ \A k \in Names : nprompt[k] = IF k \in Missing0 THEN 1 ELSE 0
          /\ DOMAIN config = DOMAIN file0.doc \cup Missing0
          /\ LoadedKeysKept
\* v is a value prompt() of option k can return
IsPromptValue(k, v) ==
  CASE k = "server-type" -> v \in {StrV(<<"j","a","v","a">>), StrV(<<"b","e","d","r","o","c","k">>)}
    [] k = "refresh-rate" -> v.t = "int" /\ v.n >= 30
    [] k = "prefix" -> v.t = "str" /\ v.s # <<>>
    [] k = "maintenance-mode-detection" -> v = None \/ (v.t = "str" /\ v.s # <<>>)
    [] OTHER -> v.t = "str" /\ v.s # <<>>
\* a step in which a prompt() called by ensure_config_keys returns
C4_Step ==
  (pc = "prompt" /\ ctx = "rec" /\ (pc' # "prompt" \/ cur' # cur)) =>
     /\ DOMAIN config' = DOMAIN config \cup {cur}
     /\ IsPromptValue(cur, config'[cur])
     /\ \A k \in DOMAIN config : config'[k] = config[k]
C4_InteractiveBackfill == [](C4_State) /\ [][C4_Step]_vars
C4_Witness ==
  /\ EnsureReturned /\ set_to_default = "no"
  /\ Cardinality(Missing0) = 3 /\ "maintenance-mode-detection" \in Missing0
  /\ config["maintenance-mode-detection"] # None
\* the option names in the order of OPTIONS
RegistryOrder == <<"bot-token", "prefix", "server-type", "server-ip",
                   "refresh-rate", "maintenance-mode-detection">>
Position(k) == CHOOSE i \in 1..6 : RegistryOrder[i] = k

\* C5: without a config.yml, run_setup calls prompt() of every option once,
\* in the order of OPTIONS, writes config.yml once and only after the last
\* prompt() returned, the written keys are exactly the option names, and
\* neither the default question nor the change question is asked.
C5_FirstRun ==
  file0.kind = "absent" =>
     /\ gates["default"] = 0 /\ gates["change"] = 0
     /\ gates["another"] = 0 /\ gates["to_change"] = 0
     /\ pc \notin {"load", "rec_gate", "rec_write", "edit_gate", "edit_key",
                   "edit_again", "edit_write"}
     /\ pc = "prompt" =>
          /\ ctx = "first"
          /\ \A k \in Names : nprompt[k] = IF Position(k) <= Position(cur) THEN 1 ELSE 0
          /\ DOMAIN config = {k \in Names : Position(k) < Position(cur)}
          /\ writes = 0 /\ file = file0
     /\ pc = "first_write" =>
          /\ \A k \in Names : nprompt[k] = 1
          /\ DOMAIN config = Names
          /\ writes = 0 /\ file = file0
     /\ pc = "done" =>
          /\ \A k \in Names : nprompt[k] = 1
          /\ writes = 1
          /\ file.kind = "map" /\ file.doc = config
          /\ DOMAIN file.doc = {RegistryOrder[i] : i \in 1..6}
C5_Witness ==
  /\ pc = "done" /\ file0.kind = "absent"
  /\ file.doc["refresh-rate"] = IntV(30)
  /\ file.doc["maintenance-mode-detection"] = None

\* C6: with a config.yml, the document is loaded before any question is
\* asked, ensure_config_keys (and its write, if any) is over before
\* "Change info in config file?" is asked, and that question is asked once
\* in every run that gets through ensure_config_keys, whether or not options
\* were missing and whatever the answer to the default question.
C6_ExistingPath ==
  file0.kind # "absent" =>
     /\ pc \in {"import", "isfile", "load"} =>
          NoQuestionYet /\ NoPromptYet /\ writes = 0
     /\ (~NoQuestionYet \/ ~NoPromptYet) => Existing /\ DOMAIN file0.doc \subseteq DOMAIN config
     /\ gates["change"] <= 1
     /\ gates["change"] = 1 =>
          /\ Missing0 \subseteq DOMAIN config
          /\ pc \notin {"rec_gate", "rec_write"} /\ ctx # "rec"
          /\ writes >= (IF Missing0 # {} THEN 1 ELSE 0)
          /\ Missing0 # {} => DOMAIN file.doc = DOMAIN file0.doc \cup Missing0
     /\ pc \in {"edit_gate", "edit_key", "edit_again", "edit_write", "done"}
          => gates["change"] = 1
     /\ pc = "edit_gate" <=> (gates["change"] = 1 /\ gates["to_change"] = 0 /\ pc # "done")
C6_Witness ==
  /\ pc = "done" /\ Existing /\ gates["change"] = 1
  /\ set_to_default = "no" /\ Cardinality(Missing0) = 2

\* C8: when config.yml exists but does not parse, the run ends with the
\* load's exception: nothing is written, no question is asked, no prompt()
\* is called, and the file is not replaced by a document of defaults.
C8_MalformedPropagates ==
  file0.kind = "malformed" =>
     /\ writes = 0 /\ file = file0
     /\ NoQuestionYet /\ NoPromptYet
     /\ pc \in {"import", "isfile", "load", "aborted"}
     /\ (pc = "aborted" /\ yaml_ok) => err = "YAMLError"
C8_Witness == pc = "aborted" /\ err = "YAMLError" /\ file0.kind = "malformed"

\* writes of config.yml made by ensure_config_keys
WritesByEnsure == IF Missing0 # {} THEN 1 ELSE 0
\* calls of prompt() made by ensure_config_keys
PromptsByEnsure(k) == IF set_to_default = "no" /\ k \in Missing0 THEN 1 ELSE 0
InEditor == \/ pc \in {"edit_gate", "edit_key", "edit_again", "edit_write"}
            \/ (pc = "prompt" /\ ctx = "edit")

\* C9: if the operator declines "Change info in config file?" the editor
\* asks for no option, calls no prompt() and writes nothing; if the operator
\* accepts, the editor writes the whole in-memory document exactly once, and
\* only after the answer no to "Change another option?", however many
\* options were edited.
C9_EditorWrites ==
  Existing =>
     /\ InEditor => writes = WritesByEnsure
     /\ (pc = "done" /\ gates["to_change"] = 0) =>
          /\ writes = WritesByEnsure
          /\ edits = 0 /\ gates["another"] = 0
          /\ \A k \in Names : nprompt[k] = PromptsByEnsure(k)
     /\ (pc = "done" /\ gates["to_change"] > 0) =>
          /\ writes = WritesByEnsure + 1
          /\ file.kind = "map" /\ file.doc = config
          /\ edits >= 1 /\ gates["another"] = edits
C9_Witness ==
  /\ pc = "done" /\ Existing /\ edits = 2 /\ writes = 2
  /\ nprompt["prefix"] = 2

\* C10: keys of the document that are no option names keep their value in
\* the in-memory document and in every document written to config.yml, by
\* ensure_config_keys with either answer and by the editor after any edits.
C10_UnknownKeysPass ==
  Existing =>
     \A k \in DOMAIN file0.doc \ {RegistryOrder[i] : i \in 1..6} :
        /\ pc \notin {"import", "isfile", "load", "aborted"} =>
             k \in DOMAIN config /\ config[k] = file0.doc[k]
        /\ file.kind = "map"
        /\ k \in DOMAIN file.doc /\ file.doc[k] = file0.doc[k]
C10_Witness ==
  /\ pc = "done" /\ writes = 2 /\ edits = 2
  /\ ExtraKey \in DOMAIN file0.doc /\ ExtraKey \in DOMAIN file.doc
  /\ set_to_default = "no"

\* C7 (as claimed): a failed import of yaml is followed by update_deps and
\* one more import; the run aborts only when that second import failed too,
\* with the fatal error, no question asked and no file written.
C7_RetryThenFatal ==
  (pc = "aborted" /\ ~yaml_ok) =>
     /\ loops = 2
     /\ err = "OSError"
     /\ NoQuestionYet /\ NoPromptYet /\ writes = 0
\* C17 (as claimed): when ensure_config_keys prompts for the missing options,
\* it takes them in the order of OPTIONS: whenever a prompt() it called is
\* running, every missing option that comes earlier in OPTIONS was already
\* taken.
C17_RegistryOrder ==
  (pc = "prompt" /\ ctx = "rec") =>
     \A k \in Missing0 : Position(k) < Position(cur) => k \in visited

\* the text of each option name
NameText(k) ==
  CASE k = "bot-token" -> <<"b","o","t","-","t","o","k","e","n">>
    [] k = "prefix" -> <<"p","r","e","f","i","x">>
    [] k = "server-type" -> <<"s","e","r","v","e","r","-","t","y","p","e">>
    [] k = "server-ip" -> <<"s","e","r","v","e","r","-","i","p">>
    [] k = "refresh-rate" -> <<"r","e","f","r","e","s","h","-","r","a","t","e">>
    [] k = "maintenance-mode-detection" ->
         <<"m","a","i","n","t","e","n","a","n","c","e","-","m","o","d","e",
           "-","d","e","t","e","c","t","i","o","n">>

\* the question "Enter option to change" is left
C18_Select ==
  (pc = "edit_key" /\ pc' # "edit_key") =>
     /\ pc' = "prompt" /\ ctx' = "edit"
     /\ cur' \in {RegistryOrder[i] : i \in 1..6}
     /\ \E line \in KeyLines : lower(line) = NameText(cur')
     /\ nprompt' = [nprompt EXCEPT ![cur'] = @ + 1]
     /\ config' = config
\* the prompt() called by the edit loop is running or returns
C18_Assign ==
  (pc = "prompt" /\ ctx = "edit") =>
     /\ nprompt' = nprompt
     /\ pc' = "prompt" => (cur' = cur /\ ctx' = "edit" /\ config' = config)
     /\ pc' # "prompt" =>
          /\ pc' = "edit_again"
          /\ DOMAIN config' = DOMAIN config
          /\ IsPromptValue(cur, config'[cur])
          /\ \A k \in DOMAIN config \ {cur} : config'[k] = config[k]
\* C18: in each iteration of the edit loop the option question is left only
\* for one of the six option names (a line naming it up to letter case was
\* typed; another key of the document is not selectable); then that
\* option's prompt() is called once and its result is assigned to that key,
\* every other key of the in-memory document staying as it was.
C18_EditorSelection ==
  /\ [][C18_Select]_vars
  /\ [][C18_Assign]_vars
  /\ [](pc = "edit_key" => DOMAIN config = DOMAIN file0.doc \cup Missing0)
C18_Witness ==
  /\ pc = "edit_again" /\ edits = 2
  /\ ExtraKey \in DOMAIN config
  /\ config["server-type"] = StrV(<<"j","a","v","a">>)
  /\ config["refresh-rate"] = IntV(30)

\* C20: in every run that ends normally, config.yml holds the final
\* in-memory document, whichever options were missing and whatever the
\* answers and the edits; the options ensure_config_keys filled are in the
\* document the editor wrote, and the file has every option name.
C20_NoLostUpdate ==
  pc = "done" =>
     /\ file.kind = "map" /\ file.doc = config
     /\ {RegistryOrder[i] : i \in 1..6} \subseteq DOMAIN file.doc
     /\ DOMAIN file.doc = DOMAIN file0.doc \cup Missing0
     /\ (set_to_default = "yes" /\ edits = 0) =>
          \A k \in Missing0 : file.doc[k] = DeclaredDefault(k)
C20_Witness ==
  /\ pc = "done" /\ writes = 2 /\ edits = 2
  /\ set_to_default = "yes" /\ Cardinality(Missing0) = 3
  /\ "prefix" \in Missing0 /\ file.doc["prefix"] = StrV(<<";">>)
  /\ "bot-token" \in Missing0 /\ file.doc["bot-token"] # None
(***************************************************************************)
(* Runs with a cooperative operator.  The program's own steps are taken    *)
(* when they can be; at every question the operator eventually types a     *)
(* line that is accepted (a step that leaves the state unchanged is a      *)
(* rejected line), and eventually answers no to "Change another option?".  *)
(***************************************************************************)
ProgramStep ==
  \/ ImportYaml \/ ImportError \/ ConfigExists \/ NoConfig
  \/ LoadFails \/ LoadNotMapping \/ LoadUpToDate \/ LoadMissing
  \/ ReconcileWrite \/ SetupWrite \/ EditorWrite
AcceptedAnswer ==
  \/ DefaultGateYes \/ DefaultGateNo
  \/ PromptLine \/ MaintenanceGate \/ MaintenanceLine
  \/ ChangeGateNo \/ ChangeGateYes
  \/ EnterOption
Cooperative ==
  /\ WF_vars(ProgramStep)
  /\ WF_vars(AcceptedAnswer)
  /\ SF_vars(AnotherGateNo)
\* the runs checked for termination start from a config.yml that lacks at
\* most MaxMissing options
FairFiles ==
  {f \in InitialFiles :
     f.kind = "map" => Cardinality(Names \ DOMAIN f.doc) <= MaxMissing}
InitFair == Init /\ file \in FairFiles
FairSpec == InitFair /\ [][Next]_vars /\ Cooperative

\* yaml imports and config.yml, if there is one, loads as a document
Loads == yaml_ok /\ file0.kind \in {"absent", "map"}
FirstRunPositions == {"first_write"}
ExistingPositions == {"load", "rec_gate", "rec_write", "edit_gate", "edit_key",
                      "edit_again", "edit_write"}
\* C19: with yaml available, a config.yml that loads and a cooperative
\* operator, every run ends normally: after the first-run pass when there
\* was no config.yml, after the load, ensure_config_keys and the editor when
\* there was one; it never enters the other branch and never goes back to
\* the existence check.
C19_Terminates ==
  /\ Loads ~> (pc = "done")
  /\ [](file0.kind = "absent" =>
          pc \notin ExistingPositions /\ ctx \in {"none", "first"})
  /\ [](file0.kind = "map" =>
          pc \notin FirstRunPositions /\ ctx \in {"none", "rec", "edit"})
  /\ [](pc = "done" => Loads /\ err = "none"
                       /\ writes >= (IF file0.kind = "absent" THEN 1 ELSE 0))
  /\ [][pc \notin {"import", "isfile"} => pc' \notin {"import", "isfile"}]_vars
  /\ [][pc = "done" => pc' = "done"]_vars
C19_Witness == pc = "done" /\ file0.kind = "map" /\ edits = 2 /\ set_to_default = "no"
(***************************************************************************)
(* Properties of single calls.                                             *)
(***************************************************************************)
Typed == 1..Len(unit.typed)
Rejected(i) == unit.log[i] \in {"silent", "msg"}
\* after the line i was rejected the same question was put again
AskedAgain(i) == i < Len(unit.typed) \/ unit.pos \in {"ask", "mm_gate", "mm_text"}
\* line i ended the call
Returned(i) == unit.log[i] = "ret" /\ i = Len(unit.typed) /\ unit.pos = "returned"
\* the call ends with the line that is accepted and reads nothing after it
EndsOnce ==
  /\ Len(unit.log) = Len(unit.typed)
  /\ \A i \in Typed : unit.log[i] = "ret" => Returned(i)
  /\ unit.pos = "returned" => unit.typed # <<>> /\ unit.log[Len(unit.log)] = "ret"

\* C11: RefreshRate.prompt() returns only an integer that is at least 30; a
\* line that is no integer and an integer below 30 are rejected and the
\* question is put again; 30 is accepted and returned as the integer 30;
\* the empty line gives the default 60.
C11_RefreshRate ==
  unit.q = "refresh-rate" =>
     /\ EndsOnce
     /\ unit.pos = "returned" => unit.result.t = "int" /\ unit.result.n >= 30
     /\ \A i \in Typed :
          /\ unit.typed[i] \in {<<"a","b","c">>, <<"3","x">>} => Rejected(i)
          /\ unit.typed[i] \in {<<"1","0">>, <<"2","9">>, <<"-","5">>} => Rejected(i)
          /\ Rejected(i) => AskedAgain(i)
          /\ unit.typed[i] = <<"3","0">> => Returned(i) /\ unit.result = IntV(30)
          /\ unit.typed[i] = <<"4","5">> => Returned(i) /\ unit.result = IntV(45)
          /\ unit.typed[i] = <<>> => Returned(i) /\ unit.result = IntV(60)
C11_Witness ==
  /\ unit.q = "refresh-rate" /\ unit.pos = "returned"
  /\ unit.typed = << <<"a","b","c">>, <<"2","9">>, <<"3","0">> >>
  /\ unit.result = IntV(30)

\* C12: ServerType.prompt() returns only "java" or "bedrock" in lowercase;
\* lines that differ from one of them in letter case only give the same
\* value, the empty line gives the default "java", and any other line is
\* rejected and the question is put again.
C12_ServerType ==
  unit.q = "server-type" =>
     /\ EndsOnce
     /\ unit.pos = "returned" =>
          unit.result \in {StrV(<<"j","a","v","a">>), StrV(<<"b","e","d","r","o","c","k">>)}
     /\ \A i \in Typed :
          /\ unit.typed[i] \in {<<"J","A","V","A">>, <<"j","a","v","a">>,
                                <<"J","a","v","a">>, <<>>}
               => Returned(i) /\ unit.result = StrV(<<"j","a","v","a">>)
          /\ unit.typed[i] \in {<<"b","e","d","r","o","c","k">>,
                                <<"B","e","d","r","o","c","k">>}
               => Returned(i) /\ unit.result = StrV(<<"b","e","d","r","o","c","k">>)
          /\ unit.typed[i] = <<"p","o","c","k","e","t","e","d","i","t","i","o","n">>
               => Rejected(i)
          /\ Rejected(i) => AskedAgain(i)
C12_Witness ==
  /\ unit.q = "server-type" /\ unit.pos = "returned"
  /\ unit.typed = << <<"p","o","c","k","e","t","e","d","i","t","i","o","n">>,
                     <<"J","A","V","A">> >>

IsYes(l) == l \in {<<"y">>, <<"Y","e","s">>}
IsNo(l) == l \in {<<"n">>, <<"N","O">>}
\* C13: in MaintenceModeDetection.prompt() the answer no returns None and no
\* further line is read; after the answer yes the free-text question rejects
\* every empty line and returns the first line that is not empty; the result
\* is None or a string that is not empty.
C13_Maintenance ==
  unit.q = "maintenance-mode-detection" =>
     /\ EndsOnce
     /\ unit.pos = "returned" =>
          \/ unit.result = None
          \/ unit.result.t = "str" /\ unit.result.s # <<>>
     /\ \A i \in Typed :
          LET atGate == \A j \in 1..(i - 1) : unit.log[j] # "yes"
          IN /\ (atGate /\ IsNo(unit.typed[i])) =>
                  Returned(i) /\ unit.result = None
             /\ (atGate /\ IsYes(unit.typed[i])) =>
                  unit.log[i] = "yes" /\ (i = Len(unit.typed) => unit.pos = "mm_text")
             /\ (atGate /\ ~IsYes(unit.typed[i]) /\ ~IsNo(unit.typed[i])) =>
                  Rejected(i) /\ AskedAgain(i)
             /\ (~atGate /\ unit.typed[i] = <<>>) => Rejected(i) /\ AskedAgain(i)
             /\ (~atGate /\ unit.typed[i] # <<>>) =>
                  Returned(i) /\ unit.result = StrV(unit.typed[i])
C13_Witness ==
  /\ unit.q = "maintenance-mode-detection" /\ unit.pos = "returned"
  /\ unit.typed = << <<"y">>, <<>>, <<"m","a","i","n","t","e","n","a","n","c","e">> >>
  /\ unit.result = StrV(<<"m","a","i","n","t","e","n","a","n","c","e">>)

\* C14: prompt() of the options with optional=False (bot-token, server-ip)
\* never returns an empty or absent value: after any number of empty lines
\* and one line that is not empty it returns exactly that line.
C14_RequiredNeverEmpty ==
  unit.q \in {"bot-token", "server-ip"} =>
     /\ EndsOnce
     /\ \A i \in Typed :
          /\ unit.typed[i] = <<>> => unit.log[i] = "silent" /\ AskedAgain(i)
          /\ unit.typed[i] # <<>> => Returned(i)
     /\ unit.pos = "returned" =>
          /\ unit.result.t = "str" /\ unit.result.s # <<>>
          /\ unit.result.s = unit.typed[Len(unit.typed)]
          /\ \A i \in 1..(Len(unit.typed) - 1) : unit.typed[i] = <<>>
C14_Witness ==
  /\ unit.q = "server-ip" /\ unit.pos = "returned"
  /\ unit.typed = << <<>>, <<>>, <<"a","b","c">> >>
  /\ unit.result = StrV(<<"a","b","c">>)

\* C15 (as claimed): every ConfigOption constructed with optional=False has
\* the default None; a construction with optional=False and any other
\* default, 0 and the empty string included, is rejected with an error.
C15_RequiredHasNoDefault ==
  (unit.q = "construct" /\ ~unit.optional) =>
     /\ unit.pos = "made" => unit.result = None
     /\ (unit.default # None /\ unit.pos # "new") => unit.pos = "raised"

\* C16 (as claimed): every rejected line is answered with a corrective
\* message before the question is put again.
C16_AlwaysMessage ==
  \A i \in Typed : Rejected(i) => unit.log[i] = "msg"

\* C16 (amended): every rejected line (an unrecognised yes/no answer, an
\* empty answer to a required free-text question, a refresh rate that is no
\* integer or is below 30, a server type other than java and bedrock, an
\* unrecognised option name in the editor) is followed by the same question
\* again and never ends the call; a corrective message is printed first
\* only for a server type other than java and bedrock and for an integer
\* refresh rate below 30.
C16_RejectedAskedAgain ==
  unit.q \in Questions =>
     /\ Len(unit.log) = Len(unit.typed)
     /\ unit.pos \in {"ask", "mm_gate", "mm_text", "returned"}
     /\ \A i \in Typed :
          /\ unit.log[i] \in {"silent", "msg", "yes", "ret"}
          /\ Rejected(i) => AskedAgain(i)
          /\ (Rejected(i) /\ unit.q = "server-type") => unit.log[i] = "msg"
          /\ (Rejected(i) /\ unit.q = "refresh-rate") =>
               (unit.log[i] = "msg" <=>
                  unit.typed[i] \in {<<"1","0">>, <<"2","9">>, <<"-","5">>})
          /\ (Rejected(i) /\ unit.q \notin {"server-type", "refresh-rate"}) =>
               unit.log[i] = "silent"
     /\ unit.q = "to_change" =>
          \A i \in Typed :
             unit.typed[i] \in {<<>>, <<"o","w","n","e","r">>} => Rejected(i)
     /\ unit.q = "y_n" =>
          \A i \in Typed :
             unit.typed[i] \in {<<>>, <<"o","k">>} => Rejected(i)
C16_Witness ==
  /\ unit.q = "refresh-rate" /\ unit.pos = "ask"
  /\ unit.typed = << <<"a","b","c">>, <<"1","0">> >>
  /\ unit.log = <<"silent", "msg">>
====
